---- MODULE Spec2Model ----
(***************************************************************************)
(* Model of package silk (decode.go): SilkToWav reads a SILK v3 container  *)
(* from an io.Reader, validates the header, decodes the length-prefixed    *)
(* blocks through a decoder session of dllsilk.dll and wraps the samples   *)
(* in a 44-byte RIFF/WAVE header.                                          *)
(*                                                                         *)
(* Bytes are the integers 0..255.  A Go error is the tuple of its message  *)
(* chain, outermost first; the nil error is the empty tuple.  Go's int is  *)
(* taken as 64 bits wide (GOARCH=amd64), int16 keeps its width.            *)
(***************************************************************************)
EXTENDS Integers, Sequences, FiniteSets, TLC

(* ---------------------------- bounds ----------------------------------- *)
\* longest enumerated block stream that follows a well-formed header
MaxBody == 6
\* longest enumerated tail that follows a malformed header
MaxTail == 1
\* longest sample buffer handed to pcmToWav when it is exercised on its own
MaxWavLen == 300

(* ------------------------ program constants ---------------------------- *)
STX == 2
Header == <<35, 33, 83, 73, 76, 75, 95, 86, 51>>    \* "#!SILK_V3"
HeaderLen == Len(Header)
FRAME_LENGTH_MS == 20
MAX_API_FS_KHZ == 48
\* var in = make([]byte, 1024)
InitialInCap == 1024
\* var frameSize = (FRAME_LENGTH_MS * MAX_API_FS_KHZ) << 1
frameSize == (FRAME_LENGTH_MS * MAX_API_FS_KHZ) * 2
\* var buf = make([]byte, frameSize*2)
BufLen == frameSize * 2

(* ------------------------------ errors --------------------------------- *)
NoErr == <<>>
EOF == <<"EOF">>
ErrUnexpectedEOF == <<"unexpected EOF">>
\* any error of the underlying io.Reader other than io.EOF
ErrSrc == <<"source read error">>
\* fmt.Errorf(msg + ": %w", cause)
Wrap(msg, cause) == <<msg>> \o cause
\* errors.Is(err, io.EOF): err is io.EOF or wraps it
IsEOF(e) == e # NoErr /\ e[Len(e)] = "EOF"

(* --------------------------- byte arithmetic --------------------------- *)
Byte(x) == x % 256
Shr(x, k) == x \div (2 ^ k)
\* the 16-bit pattern read as uint16
Int16AsUnsigned(x) == x % 65536
\* a 16-bit pattern read as int16
Int16(x) == LET m == x % 65536 IN IF m >= 32768 THEN m - 65536 ELSE m

(* ------------------------------ reader --------------------------------- *)
\* What the bufio.Reader over src reports once the bytes of s are used up.
EndErr(ioerr) == IF ioerr THEN ErrSrc ELSE EOF

\* reader.Peek(1) at offset p
Peek1(s, p, ioerr) ==
    IF p < Len(s) THEN [b |-> s[p + 1], err |-> NoErr]
    ELSE [b |-> 0, err |-> EndErr(ioerr)]

\* a ReadByte that does not see the peeked byte again but the one after it
ReadByteAfterPeeked(s, p, ioerr) ==
    IF p + 1 < Len(s) THEN [b |-> s[p + 2], pos |-> p + 2, err |-> NoErr]
    ELSE [b |-> 0, pos |-> Len(s), err |-> EndErr(ioerr)]

\* reader.ReadByte() at offset p: the byte a Peek(1) at p has shown
ReadByte(s, p, ioerr) ==
    IF p < Len(s) THEN [b |-> s[p + 1], pos |-> p + 1, err |-> NoErr]
    ELSE [b |-> 0, pos |-> p, err |-> EndErr(ioerr)]

\* io.ReadFull(reader, buf) with len(buf) = k at offset p (io.ReadAtLeast):
\* n bytes read, the new offset, and io.EOF only when no byte was read,
\* io.ErrUnexpectedEOF when the stream ended after some but not all.
ReadFull(s, p, k, ioerr) ==
    LET avail == Len(s) - p IN
    IF avail >= k
    THEN [n |-> k, pos |-> p + k, data |-> SubSeq(s, p + 1, p + k), err |-> NoErr]
    ELSE [n |-> avail, pos |-> Len(s), data |-> SubSeq(s, p + 1, Len(s)),
          err |-> IF ioerr THEN ErrSrc
                  ELSE IF avail = 0 THEN EOF ELSE ErrUnexpectedEOF]

\* binary.Read(reader, binary.LittleEndian, &nByte) with nByte int16
BinaryReadInt16(s, p, ioerr) ==
    LET r == ReadFull(s, p, 2, ioerr) IN
    IF r.err # NoErr THEN [v |-> 0, pos |-> r.pos, err |-> r.err]
    ELSE [v |-> Int16(r.data[1] + 256 * r.data[2]), pos |-> r.pos, err |-> NoErr]

(* ---------------------------- checkHeader ------------------------------ *)
\* the header check of the original decoder, which knows no marker byte
checkHeaderNoMarker(s, ioerr) ==
    LET h == ReadFull(s, 0, HeaderLen, ioerr) IN
    IF h.err # NoErr
    THEN [err |-> Wrap("failed to read file header", h.err), pos |-> h.pos]
    ELSE IF h.data # Header
    THEN [err |-> <<"invalid file header">>, pos |-> h.pos]
    ELSE [err |-> NoErr, pos |-> h.pos]

\* the marker byte dropped twice: read once and discarded once more
checkHeaderMarkerTwice(s, ioerr) ==
    LET first == Peek1(s, 0, ioerr) IN
    IF first.err # NoErr
    THEN [err |-> Wrap("failed to peek first byte", first.err), pos |-> 0]
    ELSE LET start == IF first.b = STX THEN 2 ELSE 0
             h == ReadFull(s, IF start > Len(s) THEN Len(s) ELSE start,
                           HeaderLen, ioerr)
         IN  IF h.err # NoErr
             THEN [err |-> Wrap("failed to read file header", h.err), pos |-> h.pos]
             ELSE IF h.data # Header
             THEN [err |-> <<"invalid file header">>, pos |-> h.pos]
             ELSE [err |-> NoErr, pos |-> h.pos]

\* checkHeader(reader): the error returned and the offset the reader is left at.
checkHeader(s, ioerr) ==
    LET first == Peek1(s, 0, ioerr) IN
    IF first.err # NoErr
    THEN [err |-> Wrap("failed to peek first byte", first.err), pos |-> 0]
    ELSE LET stx == IF first.b = STX THEN ReadByte(s, 0, ioerr)
                    ELSE [b |-> first.b, pos |-> 0, err |-> NoErr]
         IN  IF stx.err # NoErr
             THEN [err |-> Wrap("failed to read first byte", stx.err), pos |-> stx.pos]
             ELSE IF first.b = STX /\ stx.b # STX
             THEN [err |-> <<"invalid first byte">>, pos |-> stx.pos]
             ELSE LET h == ReadFull(s, stx.pos, HeaderLen, ioerr) IN
                  IF h.err # NoErr
                  THEN [err |-> Wrap("failed to read file header", h.err), pos |-> h.pos]
                  ELSE IF h.n # HeaderLen
                  THEN [err |-> <<"invalid file header, length">>, pos |-> h.pos]
                  ELSE IF h.data # Header
                  THEN [err |-> <<"invalid file header">>, pos |-> h.pos]
                  ELSE [err |-> NoErr, pos |-> h.pos]

(* ------------------------------ decoder -------------------------------- *)
\* the sample count returned where the byte count is meant
decodeSampleCount(outDataLength) == Int16(outDataLength)
\* return int(outDataLength * 2), nil: the product is an int16
decode(outDataLength) == Int16(outDataLength * 2)

\* Values the library may leave in outDataLength (any int16): the in-range
\* counts, the edges of the frame buffer and of the int16 product.
CountCases == {0, 1, 10, frameSize, frameSize + 1, 16383, 16384, 32767,
               -1, -32768, frameSize - 32768, frameSize + 1 - 32768}

\* the j-th byte of fill pattern f
SampleByte(f, j) == Byte(f * 101 + j)

\* Bytes of outData the library writes for a reported count c: it is handed
\* the address of buf only, the model keeps its writes inside buf.
DllWritten(c) == IF c < 0 THEN 0 ELSE IF 2 * c > BufLen THEN BufLen ELSE 2 * c

\* the sample patterns the library may produce, each over the whole frame
\* buffer, and the zeroed buffer
Fills == {0, 1}
Patterns == [f \in Fills |-> [j \in 1..BufLen |-> SampleByte(f, j)]]
ZeroBuf == [j \in 1..BufLen |-> 0]

\* buf is kept as the writes that are still visible in it, newest first:
\* <<f, w>> says bytes 1..w hold pattern f unless a newer write covers them;
\* bytes no write reached are the zeroes of make([]byte, frameSize*2).
\* outData after the library call:
DllOutput(b, c, f) ==
    IF DllWritten(c) = 0 THEN b
    ELSE <<<<f, DllWritten(c)>>>> \o SelectSeq(b, LAMBDA w : w[2] > DllWritten(c))

\* bytes from+1..n of buf
RECURSIVE BufBytes(_, _, _)
BufBytes(b, from, n) ==
    IF from >= n THEN <<>>
    ELSE IF b = <<>> THEN SubSeq(ZeroBuf, from + 1, n)
    ELSE LET f == Head(b)[1]
             w == Head(b)[2]
         IN  IF w <= from THEN BufBytes(Tail(b), from, n)
             ELSE SubSeq(Patterns[f], from + 1, IF w < n THEN w ELSE n)
                  \o BufBytes(Tail(b), w, n)

\* buf[:length]
BufSlice(b, length) == BufBytes(b, 0, length)

\* closeDecoder(handle): the session is released
closeDecoder(sessions, h) == sessions \ {h}

(* ------------------------------ pcmToWav ------------------------------- *)
\* the four header bytes of a length, most significant byte first
BE32(x) == <<Byte(Shr(x, 24)), Byte(Shr(x, 16)), Byte(Shr(x, 8)), Byte(x)>>
\* header[i] = byte(x & 0xff), byte((x >> 8) & 0xff), ... : little-endian
LE32(x) == <<Byte(x), Byte(Shr(x, 8)), Byte(Shr(x, 16)), Byte(Shr(x, 24))>>

\* the 44 bytes of header
WavHeader(totalAudioLen, numchannel, saplerate) ==
    LET byteRate == (16 * saplerate * numchannel) \div 8
        totalDataLen == totalAudioLen + 36
    IN  <<82, 73, 70, 70>> \o LE32(totalDataLen)              \* "RIFF"
        \o <<87, 65, 86, 69>> \o <<102, 109, 116, 32>>        \* "WAVE" "fmt "
        \o <<16, 0, 0, 0>>
        \o <<1, 0>> \o <<Byte(numchannel), 0>>
        \o LE32(saplerate) \o LE32(byteRate)
        \o <<Byte((2 * 16) \div 8), 0>> \o <<16, 0>>
        \o <<100, 97, 116, 97>> \o LE32(totalAudioLen)        \* "data"

\* the data length field filled with the RIFF chunk length
pcmToWavDataLenInAudioLen(dst, numchannel, saplerate) ==
    WavHeader(Len(dst) + 36, numchannel, saplerate) \o dst

pcmToWav(dst, numchannel, saplerate) ==
    WavHeader(Len(dst), numchannel, saplerate) \o dst

(* ------------------------------- state --------------------------------- *)
VARIABLES
    stream,      \* the bytes src delivers
    srcErr,      \* TRUE: src ends with a read error instead of io.EOF
    pc,          \* position in SilkToWav / Decode
    dll,         \* s.dll: "unset", "loaded" or "nil" (LoadDLL failed)
    pos,         \* bytes consumed from reader
    handle,      \* the session handle of this call, 0 before createDecoder
    live,        \* sessions created and not closed
    config,      \* <<sample rate, frames per packet>> set on the session
    blockIndex,
    inCap,       \* len(in)
    payload,     \* in[:n] of the block read last
    buf,         \* the frame output buffer (the writes visible in it)
    out,         \* the bytes.Buffer of decoded samples
    frames,      \* per library Decode call that succeeded: the payload given, the
                 \* count and pattern it answered with, outData after the call
    exit,        \* which break left the block loop
    data,        \* Decode's []byte result
    err,         \* Decode's error result
    call,        \* the arguments of the pcmToWav call
    resDst,      \* pcmToWav's result
    result,      \* SilkToWav's results: reader set or not, and the error
    run,         \* 1 in the first call of SilkToWav, 2 in a second one
    first        \* what the first call ended with, once a second one runs

vars == <<stream, srcErr, pc, dll, pos, handle, live, config, blockIndex, inCap,
          payload, buf, out, frames, exit, data, err, call, resDst, result,
          run, first>>

(* ------------------------------ inputs --------------------------------- *)
ByteVals == {0, 1, 255}
Bodies(n) == UNION {[1..k -> ByteVals] : k \in 0..n}

\* The block streams of the documented scenarios: one 4-byte block and a
\* footer; a block declaring 10 bytes with 3 present; a block larger than in.
ScenarioBodies == {<<4, 0, 1, 2, 3, 4, 255, 255>>, <<10, 0, 1, 2, 3>>,
                   <<1, 4, 0>>}

GoodHeaders == {Header, <<STX>> \o Header}

\* Header with one byte changed, cut short, or with a second marker
Damaged(h) == {[h EXCEPT ![i] = x] : i \in 1..Len(h), x \in {0, STX, 52}} \ {h}
Prefixes(h) == {SubSeq(h, 1, k) : k \in 0..(Len(h) - 1)}
BadHeaders == Damaged(Header) \cup Prefixes(Header)
              \cup {<<STX>> \o h : h \in Damaged(Header) \cup Prefixes(Header)}
              \cup {<<STX, STX>> \o Header, <<1>> \o Header}

InputStreams ==
    {h \o b : h \in GoodHeaders, b \in Bodies(MaxBody) \cup ScenarioBodies}
    \cup {h \o b : h \in BadHeaders, b \in Bodies(MaxTail)}

NoCall == [dst |-> <<>>, numchannel |-> 0, saplerate |-> 0]
NoResult == [reader |-> FALSE, err |-> NoErr]
\* no call has ended yet
NoFirst == [pc |-> ""]

Init ==
    /\ stream \in InputStreams
    /\ srcErr \in BOOLEAN
    /\ pc = "SilkToWav"
    /\ dll = "unset"
    /\ pos = 0
    /\ handle = 0
    /\ live = {}
    /\ config = <<0, 0>>
    /\ blockIndex = 0
    /\ inCap = 0
    /\ payload = <<>>
    /\ buf = <<>>
    /\ out = <<>>
    /\ frames = <<>>
    /\ exit = ""
    /\ data = <<>>
    /\ err = NoErr
    /\ call = NoCall
    /\ resDst = <<>>
    /\ result = NoResult
    /\ run = 1
    /\ first = NoFirst

\* return data, err from Decode
Return(d, e) ==
    /\ pc' = "Decode.return"
    /\ data' = d
    /\ err' = e

\* a run-time panic: the call never returns
Panic ==
    /\ pc' = "panic"
    /\ UNCHANGED <<data, err>>

(* ------------------------------ actions -------------------------------- *)
\* decoder := NewSilkDecoder(): init's error is dropped, s.dll stays nil
NewSilkDecoder ==
    /\ pc = "SilkToWav"
    /\ dll' \in {"loaded", "nil"}
    /\ pc' = "checkHeader"
    /\ UNCHANGED <<run, first, stream, srcErr, pos, handle, live, config, blockIndex, inCap,
                   payload, buf, out, frames, exit, data, err, call, resDst, result>>

\* Decode, lines 93-97
DecodeCheckHeader ==
    /\ pc = "checkHeader"
    /\ LET h == checkHeader(stream, srcErr) IN
       /\ pos' = h.pos
       /\ IF h.err # NoErr THEN Return(<<>>, h.err)
          ELSE pc' = "createDecoder" /\ UNCHANGED <<data, err>>
    /\ UNCHANGED <<run, first, stream, srcErr, dll, handle, live, config, blockIndex, inCap,
                   payload, buf, out, frames, exit, call, resDst, result>>

\* out kept in a variable that outlives the call: it is not made anew
DecodeCreateDecoderSharedOut ==
    /\ pc = "createDecoder"
    /\ blockIndex' = 0
    /\ out' = out
    /\ \/ /\ dll = "nil"
          /\ Panic
          /\ UNCHANGED <<handle, live>>
       \/ /\ dll = "loaded"
          /\ \E failed \in {"", "FindProc", "Call"} :
                IF failed # ""
                THEN Return(<<>>, <<"CreateDecoder", failed>>) /\ UNCHANGED <<handle, live>>
                ELSE /\ handle' = Cardinality(live) + 1
                     /\ live' = live \cup {Cardinality(live) + 1}
                     /\ pc' = "setSampleRate"
                     /\ UNCHANGED <<data, err>>
    /\ UNCHANGED <<run, first, stream, srcErr, dll, pos, config, inCap,
                   payload, buf, frames, exit, call, resDst, result>>

\* Decode, lines 98-103: blockIndex and out are new, the library hands out
\* a new session; FindProc on a nil *DLL dereferences it
DecodeCreateDecoder ==
    /\ pc = "createDecoder"
    /\ blockIndex' = 0
    /\ out' = <<>>
    /\ \/ /\ dll = "nil"
          /\ Panic
          /\ UNCHANGED <<handle, live>>
       \/ /\ dll = "loaded"
          /\ \E failed \in {"", "FindProc", "Call"} :
                IF failed # ""
                THEN Return(<<>>, <<"CreateDecoder", failed>>) /\ UNCHANGED <<handle, live>>
                ELSE /\ handle' = Cardinality(live) + 1
                     /\ live' = live \cup {Cardinality(live) + 1}
                     /\ pc' = "setSampleRate"
                     /\ UNCHANGED <<data, err>>
    /\ UNCHANGED <<run, first, stream, srcErr, dll, pos, config, inCap,
                   payload, buf, frames, exit, call, resDst, result>>

\* the loop entered right after the sample rate: frames per packet never set
DecodeSetSampleRateThenLoop ==
    /\ pc = "setSampleRate"
    /\ \E failed \in {"", "FindProc", "Call"} :
          IF failed # ""
          THEN Return(<<>>, <<"setSampleRate", failed>>) /\ UNCHANGED config
          ELSE /\ config' = <<16000, config[2]>>
               /\ pc' = "loop"
               /\ UNCHANGED <<data, err>>
    /\ UNCHANGED <<run, first, stream, srcErr, dll, pos, handle, live, blockIndex, inCap,
                   payload, buf, out, frames, exit, call, resDst, result>>

\* Decode, lines 104-107
DecodeSetSampleRate ==
    /\ pc = "setSampleRate"
    /\ \E failed \in {"", "FindProc", "Call"} :
          IF failed # ""
          THEN Return(<<>>, <<"setSampleRate", failed>>) /\ UNCHANGED config
          ELSE /\ config' = <<16000, config[2]>>
               /\ pc' = "setFramesPerPacket"
               /\ UNCHANGED <<data, err>>
    /\ UNCHANGED <<run, first, stream, srcErr, dll, pos, handle, live, blockIndex, inCap,
                   payload, buf, out, frames, exit, call, resDst, result>>

\* Decode, lines 108-117
DecodeSetFramesPerPacket ==
    /\ pc = "setFramesPerPacket"
    /\ \E failed \in {"", "FindProc", "Call"} :
          IF failed # ""
          THEN Return(<<>>, <<"setFramesPerPacket", failed>>)
               /\ UNCHANGED <<config, inCap, buf>>
          ELSE /\ config' = <<config[1], 1>>
               /\ inCap' = InitialInCap
               /\ buf' = <<>>
               /\ pc' = "loop"
               /\ UNCHANGED <<data, err>>
    /\ UNCHANGED <<run, first, stream, srcErr, dll, pos, handle, live, blockIndex,
                   payload, out, frames, exit, call, resDst, result>>

\* Decode, lines 120-146: what one pass over the length field and the
\* payload yields at offset p.  kind is "block" (in[:n] read), "error"
\* (return nil, err), or the break taken: "eof", "footer", "payload-eof".
\* n is the length the input slice was sized for.
readBlock(s, p, ioerr) ==
    LET r == BinaryReadInt16(s, p, ioerr) IN
    IF r.err # NoErr
    THEN IF IsEOF(r.err)
         THEN [kind |-> "eof", pos |-> r.pos, n |-> 0, payload |-> <<>>, err |-> NoErr]
         ELSE [kind |-> "error", pos |-> r.pos, n |-> 0, payload |-> <<>>,
               err |-> Wrap("failed to read block size", r.err)]
    ELSE IF r.v < 0
    THEN [kind |-> "footer", pos |-> r.pos, n |-> 0, payload |-> <<>>, err |-> NoErr]
    ELSE LET q == ReadFull(s, r.pos, r.v, ioerr) IN
         IF q.err # NoErr
         THEN IF IsEOF(q.err)
              THEN [kind |-> "payload-eof", pos |-> q.pos, n |-> r.v,
                    payload |-> <<>>, err |-> NoErr]
              ELSE [kind |-> "error", pos |-> q.pos, n |-> r.v, payload |-> <<>>,
                    err |-> Wrap("failed to read block", q.err)]
         ELSE IF q.n # r.v
         THEN [kind |-> "error", pos |-> q.pos, n |-> r.v, payload |-> <<>>,
               err |-> <<"invalid block">>]
         ELSE [kind |-> "block", pos |-> q.pos, n |-> r.v, payload |-> q.data,
               err |-> NoErr]

\* Decode, lines 119-146 and the return of line 156 behind each break
DecodeReadBlock ==
    /\ pc = "loop"
    /\ blockIndex' = blockIndex + 1
    /\ LET b == readBlock(stream, pos, srcErr) IN
       /\ pos' = b.pos
       /\ inCap' = IF b.n > inCap THEN b.n ELSE inCap
       /\ IF b.kind = "block"
          THEN /\ payload' = b.payload
               /\ pc' = "decode"
               /\ UNCHANGED <<exit, data, err>>
          ELSE IF b.kind = "error"
          THEN UNCHANGED <<payload, exit>> /\ Return(<<>>, b.err)
          ELSE /\ exit' = b.kind
               /\ UNCHANGED payload
               /\ Return(out, NoErr)
    /\ UNCHANGED <<run, first, stream, srcErr, dll, handle, live, config, buf, out, frames,
                   call, resDst, result>>

\* Decode, lines 147-154: s.decode and out.Write(buf[:length])
DecodeBlock ==
    /\ pc = "decode"
    /\ \/ \* FindProc("Decode") fails
          /\ Return(<<>>, <<"Decode", "FindProc">>)
          /\ UNCHANGED <<buf, out, frames>>
       \/ \* &inData[0] on an empty slice: index out of range
          /\ Len(payload) = 0
          /\ Panic
          /\ UNCHANGED <<buf, out, frames>>
       \/ /\ Len(payload) > 0
          /\ \E c \in CountCases, f \in Fills, failed \in BOOLEAN :
                LET b == DllOutput(buf, c, f)
                    length == decode(c)
                IN  /\ buf' = b
                    /\ IF failed
                       THEN Return(<<>>, <<"Decode", "Call">>)
                            /\ UNCHANGED <<out, frames>>
                       ELSE /\ frames' = Append(frames,
                                   [count |-> c, payload |-> payload,
                                    fill |-> IF DllWritten(c) = 0 THEN 0 ELSE f,
                                    outData |-> b])
                            /\ IF length < 0 \/ length > BufLen
                               THEN Panic /\ UNCHANGED out
                               ELSE /\ out' = out \o BufSlice(b, length)
                                    /\ pc' = "loop"
                                    /\ UNCHANGED <<data, err>>
    /\ UNCHANGED <<run, first, stream, srcErr, dll, pos, handle, live, config, blockIndex,
                   inCap, payload, exit, call, resDst, result>>

\* SilkToWav, lines 291-295
SilkToWavReturn ==
    /\ pc = "Decode.return"
    /\ IF err # NoErr
       THEN /\ result' = [reader |-> FALSE, err |-> err]
            /\ UNCHANGED <<call, resDst>>
       ELSE /\ call' = [dst |-> data, numchannel |-> 2, saplerate |-> 16000]
            /\ resDst' = pcmToWav(data, 2, 16000)
            /\ result' = [reader |-> TRUE, err |-> NoErr]
    /\ pc' = "done"
    /\ UNCHANGED <<run, first, stream, srcErr, dll, pos, handle, live, config, blockIndex,
                   inCap, payload, buf, out, frames, exit, data, err>>

Next ==
    \/ NewSilkDecoder
    \/ DecodeCheckHeader
    \/ DecodeCreateDecoder
    \/ DecodeSetSampleRate
    \/ DecodeSetFramesPerPacket
    \/ DecodeReadBlock
    \/ DecodeBlock
    \/ SilkToWavReturn

Spec == Init /\ [][Next]_vars

(* ------------------------ SilkToWav called twice ----------------------- *)
\* A second call of SilkToWav on a source that delivers the same bytes.  It
\* has a decoder value, a reader, a session and results of its own; the
\* locals the code itself initialises (blockIndex, out, handle, in, buf) are
\* left as the first call left them.  first keeps how the first call ended
\* and what the library answered in it.
Restart ==
    /\ run = 1
    /\ pc \in {"done", "panic"}
    /\ first' = [pc |-> pc, dll |-> dll, err |-> err, frames |-> frames,
                 payload |-> payload, result |-> result, resDst |-> resDst]
    /\ run' = 2
    /\ pc' = "SilkToWav"
    /\ dll' = "unset"
    /\ pos' = 0
    /\ config' = <<0, 0>>
    /\ frames' = <<>>
    /\ exit' = ""
    /\ data' = <<>>
    /\ err' = NoErr
    /\ call' = NoCall
    /\ resDst' = <<>>
    /\ result' = NoResult
    /\ UNCHANGED <<stream, srcErr, live, handle, blockIndex, inCap, payload, buf, out>>

\* the library procedure called at p
LibName(p) ==
    CASE p = "createDecoder" -> "CreateDecoder"
      [] p = "setSampleRate" -> "setSampleRate"
      [] p = "setFramesPerPacket" -> "setFramesPerPacket"
      [] OTHER -> "Decode"
Payloads(fs) == [i \in 1..Len(fs) |-> fs[i].payload]

\* The library of the second call is the library of the first: it loads or
\* not as before, and a session answers as the first one did as long as it
\* is given the same calls with the same sequence of payloads.
SameLibrary ==
    /\ (pc = "SilkToWav") => dll' = first.dll
    /\ (pc \in {"createDecoder", "setSampleRate", "setFramesPerPacket"})
         => err' = IF first.err # NoErr /\ first.err[1] = LibName(pc)
                   THEN first.err ELSE NoErr
    /\ (pc = "decode")
         => LET k == Len(frames) + 1 IN
            IF /\ k <= Len(first.frames)
               /\ Payloads(frames) = Payloads(SubSeq(first.frames, 1, k - 1))
               /\ payload = first.frames[k].payload
            THEN /\ Len(frames') = k
                 /\ frames'[k].count = first.frames[k].count
                 /\ frames'[k].fill = first.frames[k].fill
            ELSE IF /\ k = Len(first.frames) + 1
                    /\ Payloads(frames) = Payloads(first.frames)
                    /\ payload = first.payload
                    /\ \/ first.pc = "panic"
                       \/ first.err # NoErr /\ first.err[1] = "Decode"
            THEN /\ frames' = frames
                 /\ err' = first.err
                 /\ (pc' = "panic") <=> (first.pc = "panic")
            ELSE TRUE

FirstRun == run = 1 /\ Next
SecondRun == run = 2 /\ Next /\ SameLibrary

NextTwice ==
    \/ FirstRun
    \/ Restart
    \/ SecondRun

\* the two calls read a source that ends at the end of its data
InitTwice == Init /\ srcErr = FALSE

SpecTwice == InitTwice /\ [][NextTwice]_vars

(* ----------------------- pcmToWav on its own --------------------------- *)
\* pcmToWav is a pure function of its three arguments: sample buffers of
\* every length up to MaxWavLen, channel counts over the uint16 range and
\* sample rates.
WavChannels == {0, 1, 2, 255, 256, 258, 65535}
WavRates == {0, 8000, 16000, 24000, 44100, 65536, 16777216, 134217727}
\* The checker's integers are 32 bits wide: the arguments are kept to those
\* whose products fit, where Go's 64-bit int computes without wrapping.
Fits(ch, sr) == ch = 0 \/ sr <= 2147483647 \div (16 * ch)
\* sample buffers of every length 0..MaxWavLen
WavSamples == {[j \in 1..n |-> SampleByte(f, j)] : n \in 0..MaxWavLen, f \in Fills}
WavCalls == {c \in [dst : WavSamples, numchannel : WavChannels, saplerate : WavRates] :
                Fits(c.numchannel, c.saplerate)}

InitWav ==
    /\ stream = <<>>
    /\ srcErr = FALSE
    /\ pc = "pcmToWav"
    /\ dll = "unset"
    /\ pos = 0
    /\ handle = 0
    /\ live = {}
    /\ config = <<0, 0>>
    /\ blockIndex = 0
    /\ inCap = 0
    /\ payload = <<>>
    /\ buf = <<>>
    /\ out = <<>>
    /\ frames = <<>>
    /\ exit = ""
    /\ data = <<>>
    /\ err = NoErr
    /\ call \in WavCalls
    /\ resDst = <<>>
    /\ result = NoResult
    /\ run = 1
    /\ first = NoFirst

PcmToWavCall ==
    /\ pc = "pcmToWav"
    /\ resDst' = pcmToWav(call.dst, call.numchannel, call.saplerate)
    /\ pc' = "pcmToWav.return"
    /\ UNCHANGED <<run, first, stream, srcErr, dll, pos, handle, live, config, blockIndex, inCap,
                   payload, buf, out, frames, exit, data, err, call, result>>

NextWav == PcmToWavCall

SpecWav == InitWav /\ [][NextWav]_vars

(* ======================== properties checked =========================== *)
\* the container format, stated on the input bytes alone
BeginsWith(s, h) == Len(s) >= Len(h) /\ SubSeq(s, 1, Len(h)) = h
WellFormedHeader(s) == BeginsWith(s, Header) \/ BeginsWith(s, <<STX>> \o Header)
\* a whole length field lies at offset p
LengthFieldAt(s, p) == p + 2 <= Len(s)
\* its value is negative: the top bit of the second byte is set
FooterAt(s, p) == LengthFieldAt(s, p) /\ s[p + 2] >= 128
\* it declares n >= 0 payload bytes and fewer than n follow it
DeclaredLen(s, p) == s[p + 1] + 256 * s[p + 2]
TruncatedBlockAt(s, p) ==
    /\ LengthFieldAt(s, p)
    /\ s[p + 2] < 128
    /\ Len(s) - (p + 2) < DeclaredLen(s, p)
Val16(s, i) == s[i] + 256 * s[i + 1]
Val32(s, i) == s[i] + 256 * s[i + 1] + 65536 * s[i + 2] + 16777216 * s[i + 3]

\* C1: whenever the loop reads a length n >= 0 that fewer than n payload
\* bytes follow (none included), Decode returns an error and no sample data.
C1_TruncationIsAnError ==
    [][(pc = "loop" /\ TruncatedBlockAt(stream, pos))
         => (pc' = "Decode.return" /\ err' # NoErr /\ data' = <<>>)]_vars

\* The failures a conversion step can meet: a malformed header, a library
\* call that fails, a source error or a short payload while a block is read.
FailedStep ==
    \/ pc = "checkHeader" /\ ~WellFormedHeader(stream)
    \/ pc = "loop" /\ TruncatedBlockAt(stream, pos)
    \/ pc = "loop" /\ srcErr /\ ~LengthFieldAt(stream, pos)
    \/ pc \in {"createDecoder", "setSampleRate", "setFramesPerPacket", "decode"}
       /\ err' # NoErr

\* C2: every failure is fatal: the step that meets it makes Decode return
\* nil data with the error, nothing is read or decoded afterwards, and
\* SilkToWav returns the error and no reader.
C2_EveryFailureIsFatal ==
    /\ [][FailedStep => (pc' = "Decode.return" /\ err' # NoErr /\ data' = <<>>)]_vars
    /\ [][(pc \in {"Decode.return", "done"})
            => (UNCHANGED <<pos, blockIndex, frames, out>>)]_vars
    /\ [][(pc = "Decode.return" /\ err # NoErr)
            => (~result'.reader /\ result'.err = err /\ resDst' = <<>>)]_vars

\* C3: when Decode has returned, every session it created has been closed.
C3_SessionReleased ==
    pc \in {"Decode.return", "done"} => live = {}

\* C4: when the stream ends inside the length field (no byte or one byte of
\* it left), Decode returns the accumulated samples without error.
C4_EndInLengthFieldIsClean ==
    [][(pc = "loop" /\ ~srcErr /\ ~LengthFieldAt(stream, pos))
         => (pc' = "Decode.return" /\ err' = NoErr /\ data' = out)]_vars

\* C5: a negative length stops the loop cleanly whatever follows it: the
\* two bytes of the field are all that is read, the decoder is not called,
\* no error is returned and the result is the samples accumulated so far.
C5_NegativeLengthEndsCleanly ==
    [][(pc = "loop" /\ FooterAt(stream, pos))
         => /\ pc' = "Decode.return"
            /\ err' = NoErr
            /\ data' = out
            /\ pos' = pos + 2
            /\ (UNCHANGED <<out, frames, buf, payload>>)]_vars

\* C5 witness: a footer ended a run that had decoded samples, with bytes
\* of the stream left unread behind it.
C5_Witness ==
    /\ pc = "done"
    /\ exit = "footer"
    /\ result.reader
    /\ Len(data) > 0
    /\ pos < Len(stream)

\* C6: the header check passes exactly for a stream that begins with the
\* magic or with the marker and the magic; for every other stream Decode
\* returns checkHeader's error and no session is ever created.
C6_HeaderValidation ==
    /\ [][(pc = "checkHeader")
            => IF WellFormedHeader(stream)
               THEN pc' = "createDecoder" /\ err' = NoErr
               ELSE /\ pc' = "Decode.return"
                    /\ err' # NoErr
                    /\ err' = checkHeader(stream, srcErr).err
                    /\ data' = <<>>]_vars
    /\ [](~WellFormedHeader(stream) => (live = {} /\ handle = 0 /\ frames = <<>>))

\* C6 witness: a stream with two markers before the magic was rejected by
\* the comparison with the magic.
C6_Witness ==
    /\ pc = "done"
    /\ BeginsWith(stream, <<STX, STX>> \o Header)
    /\ result.err = <<"invalid file header">>
    /\ live = {}

\* what the claim takes from the decoder for one block: the count c it
\* reports and the first 2*c bytes of its output
RECURSIVE Samples(_)
Samples(fs) ==
    IF fs = <<>> THEN <<>>
    ELSE BufSlice(Head(fs).outData, 2 * Head(fs).count) \o Samples(Tail(fs))
RECURSIVE SumCounts(_)
SumCounts(fs) == IF fs = <<>> THEN 0 ELSE Head(fs).count + SumCounts(Tail(fs))
\* every count reported is one the frame buffer holds, so that the first
\* 2*c bytes of the output exist
CountsFitBuffer(fs) ==
    \A i \in 1..Len(fs) : fs[i].count >= 0 /\ 2 * fs[i].count <= BufLen

ScenarioStream == Header \o <<4, 0, 1, 2, 3, 4, 255, 255>>

\* C8: a successful SilkToWav returns 44 header bytes followed by exactly
\* the bytes Decode returned; the header declares 2 channels, 16000 Hz and
\* the number of sample bytes; the scenario with 10 samples gives 64 bytes
\* with byte 40 = 20 and bytes 41-43 = 0.
C8_OutputIsHeaderThenSamples ==
    /\ (pc = "done" /\ result.err = NoErr)
         => /\ result.reader
            /\ Len(resDst) = 44 + Len(data)
            /\ SubSeq(resDst, 45, Len(resDst)) = data
            /\ Val16(resDst, 23) = 2
            /\ Val32(resDst, 25) = 16000
            /\ Val32(resDst, 41) = Len(data)
    /\ (pc = "done" /\ stream = ScenarioStream /\ Len(frames) = 1
        /\ frames[1].count = 10)
         => /\ result.err = NoErr
            /\ Len(resDst) = 64
            /\ SubSeq(resDst, 41, 44) = <<20, 0, 0, 0>>

\* C8 witness: the scenario was converted
C8_Witness ==
    /\ pc = "done"
    /\ stream = ScenarioStream
    /\ Len(frames) = 1
    /\ frames[1].count = 10
    /\ Len(resDst) = 64

\* C9: for a sample buffer of L bytes pcmToWav returns 44 + L bytes, the
\* samples unchanged from byte 44 on, L + 36 in bytes 4-7 and L in bytes
\* 40-43, both little-endian.
C9_WavSizing ==
    (pc \in {"pcmToWav.return", "done"} /\ result.err = NoErr)
      => /\ Len(resDst) = 44 + Len(call.dst)
         /\ SubSeq(resDst, 45, Len(resDst)) = call.dst
         /\ Val32(resDst, 5) = Len(call.dst) + 36
         /\ Val32(resDst, 41) = Len(call.dst)

\* C9 witness: a buffer of 220 bytes, whose chunk length 256 needs the
\* second byte of the field
C9_Witness ==
    /\ pc = "pcmToWav.return"
    /\ Len(call.dst) = 220
    /\ SubSeq(resDst, 5, 8) = <<0, 1, 0, 0>>
    /\ SubSeq(resDst, 41, 44) = <<220, 0, 0, 0>>

\* C10: the header matches the layout field for field for every channel
\* count and sample rate: format 1, the channel count as 16 bits, the
\* sample rate, the byte rate 16 * rate * channels / 8, block align 4 and
\* 16 bits per sample.
C10_HeaderLayout ==
    pc = "pcmToWav.return"
      => /\ Val16(resDst, 21) = 1
         /\ Val16(resDst, 23) = call.numchannel
         /\ Val32(resDst, 25) = call.saplerate
         /\ Val32(resDst, 29) = (16 * call.saplerate * call.numchannel) \div 8
         /\ Val16(resDst, 33) = 4
         /\ Val16(resDst, 35) = 16

\* the stream is the marker followed by a stream s that begins with the magic
Marked(m) == Len(m) > 0 /\ m[1] = STX /\ BeginsWith(Tail(m), Header)

\* C11: converting 0x02 followed by s runs as converting s does: every step
\* that reads the input does on the marked stream, one byte further on,
\* what the code does on s: the same header verdict, the same payload
\* handed to the decoder, the same break or error; so the results agree.
C11_MarkerChangesNothing ==
    [][Marked(stream)
         => /\ (pc = "checkHeader")
                 => LET h == checkHeader(Tail(stream), srcErr)
                    IN  /\ pos' = h.pos + 1
                        /\ err' = h.err
                        /\ h.err = NoErr
                        /\ pc' = "createDecoder"
            /\ (pc = "loop")
                 => LET b == readBlock(Tail(stream), pos - 1, srcErr)
                    IN  /\ pos' = b.pos + 1
                        /\ b.kind = "block"
                             => (pc' = "decode" /\ payload' = b.payload
                                 /\ err' = NoErr)
                        /\ b.kind = "error"
                             => (pc' = "Decode.return" /\ err' = b.err
                                 /\ data' = <<>>)
                        /\ b.kind \in {"eof", "footer", "payload-eof"}
                             => (pc' = "Decode.return" /\ err' = NoErr
                                 /\ data' = out /\ exit' = b.kind)
            /\ (pc \notin {"checkHeader", "loop"}) => pos' = pos]_vars

\* C11 witness: a marked stream converted, with a block decoded
C11_Witness ==
    /\ pc = "done"
    /\ Marked(stream)
    /\ result.reader
    /\ Len(frames) >= 1
    /\ Len(resDst) > 44

\* the message chain e names the number i (as %d would print it)
Mentions(e, i) == \E k \in 1..Len(e) : e[k] = ToString(i)

\* C12: an error returned from the block loop carries the index of the
\* block or the byte offset at which it occurred.
C12_LoopErrorsCarryPosition ==
    (pc = "Decode.return" /\ err # NoErr /\ blockIndex >= 1)
      => (Mentions(err, blockIndex) \/ Mentions(err, pos))

\* C13: a second conversion of the same bytes, with a library that answers
\* as it did in the first, ends as the first did: the same panic, or the
\* same error, or byte for byte the same output.
C13_Deterministic ==
    (run = 2 /\ pc \in {"done", "panic"})
      => /\ pc = first.pc
         /\ result = first.result
         /\ resDst = first.resDst

\* C13 witness: both conversions decoded two blocks and returned output
C13_Witness ==
    /\ run = 2
    /\ pc = "done"
    /\ result.reader
    /\ Len(frames) = 2
    /\ Len(resDst) > 44

\* C14: a block whose declared length is 0 is decoded like any other: the
\* decode step on the empty payload goes on with the loop (or returns the
\* library's error), it never panics.
C14_ZeroLengthBlockIsOrdinary ==
    [][(pc = "decode" /\ payload = <<>>) => (pc' \in {"loop", "Decode.return"})]_vars

\* C15: for every sample count the library reports, the byte length taken
\* from buf is twice the count, computed without 16-bit wrap-around, and
\* lies within 0..BufLen, so that buf[:length] never panics.
C15_LengthWithinBuffer ==
    /\ \A i \in 1..Len(frames) :
          /\ decode(frames[i].count) = 2 * frames[i].count
          /\ decode(frames[i].count) \in 0..BufLen

\* C16: in one call of Decode the header is validated once and before any
\* decoder operation; then exactly one session is created, its sample rate
\* is set to 16000, then its frames per packet to 1; after that reading a
\* block and decoding it alternate strictly, always on that session.
C16_EventOrder ==
    /\ [](/\ (pc \in {"SilkToWav", "checkHeader"})
               => (live = {} /\ config = <<0, 0>> /\ frames = <<>>)
          /\ (pc \in {"setSampleRate", "setFramesPerPacket", "loop", "decode"})
               => live = {handle}
          /\ (pc = "loop") => (config = <<16000, 1>> /\ blockIndex = Len(frames))
          /\ (pc = "decode") => (config = <<16000, 1>> /\ blockIndex = Len(frames) + 1))
    /\ [][/\ (pc' # pc /\ pc' = "checkHeader") => pc = "SilkToWav"
          /\ (pc' # pc /\ pc' = "createDecoder")
               => (pc = "checkHeader" /\ checkHeader(stream, srcErr).err = NoErr)
          /\ (pc' # pc /\ pc' = "setSampleRate")
               => (pc = "createDecoder" /\ live = {} /\ live' = {handle'} /\ config' = <<0, 0>>)
          /\ (pc' # pc /\ pc' = "setFramesPerPacket")
               => (pc = "setSampleRate" /\ config' = <<16000, 0>>)
          /\ (pc' # pc /\ pc' = "loop")
               => \/ pc = "setFramesPerPacket" /\ config' = <<16000, 1>> /\ frames = <<>>
                  \/ pc = "decode" /\ Len(frames') = Len(frames) + 1
          /\ (pc' # pc /\ pc' = "decode")
               => (pc = "loop" /\ blockIndex' = blockIndex + 1 /\ frames' = frames)
          /\ (pc \in {"setSampleRate", "setFramesPerPacket", "loop", "decode"})
               => (handle' = handle /\ live' = live)]_vars

\* C16 witness: two blocks were read and decoded and the loop reads on
C16_Witness ==
    /\ pc = "loop"
    /\ Len(frames) = 2
    /\ blockIndex = 2

\* every pass of the loop that goes on has consumed a length field: after
\* blockIndex passes the reader is at least 2 * blockIndex bytes past the
\* header, and never past the end of the stream
IterationsBounded ==
    /\ pos <= Len(stream)
    /\ (pc \in {"loop", "decode"}) => pos >= HeaderLen + 2 * blockIndex

\* C17: on a finite stream Decode comes to an end by returning a result or
\* an error: the passes of the loop are bounded by the stream length, and
\* the call never stops without returning.
C17_DecodeReturns ==
    /\ IterationsBounded
    /\ pc # "panic"

\* C18: when the library could not be loaded, a call on a stream with a
\* valid header does not panic on the nil library, creates no session and
\* decodes nothing, and ends by returning an error and no output.
C18_MissingLibraryIsAnError ==
    (dll = "nil" /\ WellFormedHeader(stream))
      => /\ pc # "panic"
         /\ live = {}
         /\ frames = <<>>
         /\ (pc = "done") => (result.err # NoErr /\ ~result.reader /\ resDst = <<>>)

\* C19: checkHeader drops at most one leading 0x02, the very byte it has
\* peeked: it never returns the 'invalid first byte' error; two markers
\* before the magic are rejected by the comparison with the magic; and when
\* it succeeds the reader stands right after the magic, at offset 9 without
\* a marker and 10 with one, which is where the first length field is read.
C19_AtMostOneMarkerDropped ==
    [][(pc = "checkHeader")
         => /\ err' # <<"invalid first byte">>
            /\ err' # <<"invalid file header, length">>
            /\ BeginsWith(stream, <<STX, STX>>) => err' # NoErr
            /\ BeginsWith(stream, <<STX, STX>> \o Header) => err' = <<"invalid file header">>
            /\ (err' = NoErr)
                 => /\ pos' = HeaderLen + (IF stream[1] = STX THEN 1 ELSE 0)
                    /\ SubSeq(stream, pos' - HeaderLen + 1, pos') = Header
                    /\ pc' = "createDecoder"]_vars

\* C19 witness: after a marker and the magic the first length field was
\* read at offset 10
C19_Witness ==
    /\ BeginsWith(stream, <<STX>>)
    /\ pc = "decode"
    /\ blockIndex = 1
    /\ pos = HeaderLen + 1 + 2 + Len(payload)

====
